---- MODULE Spec2Model ----
(***************************************************************************)
(* Ethiopian checkers (checkers.cpp): the GameState struct, the move       *)
(* generator FindValidMoves, the click handler HandleInput, the promotion  *)
(* rule, the terminal-state evaluator CheckGameOver and the frame loop of  *)
(* main that drives them.                                                  *)
(***************************************************************************)
EXTENDS Integers, Sequences, FiniteSets, TLC

\* ------------------------------------------------------------ constants
BOARD_WIDTH == 600
BOARD_HEIGHT == 600
CELL_SIZE == 75
MAX_VALID_MOVES == 12

\* enum PieceType { NONE, REGULAR, KING }
NONE == 0
REGULAR == 1
KING == 2

\* enum Player { PLAYER1, PLAYER2 }
PLAYER1 == 0
PLAYER2 == 1

\* BOARD_WIDTH / CELL_SIZE and BOARD_HEIGHT / CELL_SIZE, the grid's extent
Cols == BOARD_WIDTH \div CELL_SIZE
Rows == BOARD_HEIGHT \div CELL_SIZE

\* player1Rows / player2Rows of InitializeGame
StartRows == 3

\* the pieces InitializeGame gives each player: the dark cells of its rows
StartPieces == StartRows * (Cols \div 2)

\* winner before any game is decided (main: int winner = -1)
NoWinner == -1

\* ------------------------------------------------------------ bounds
\* mouse clicks processed in one run
MaxClicks == 4

\* pieces placed freely on the boards the pure functions are applied to
FreePieces == 1

\* pieces placed on the long diagonal of those boards
LinePieces == 3

\* ------------------------------------------------------------ helpers
Abs(n) == IF n < 0 THEN 0 - n ELSE n

Other(p) == IF p = PLAYER1 THEN PLAYER2 ELSE PLAYER1

InBounds(x, y) == x >= 0 /\ x < Cols /\ y >= 0 /\ y < Rows

XS == 0 .. (Cols - 1)
YS == 0 .. (Rows - 1)

\* Columns a click can fall in: the grid, and the first column of the side
\* panel (mouseX / CELL_SIZE with the mouse right of the board).
ClickXS == 0 .. Cols

\* gameState.board[y][x] as the row-major array evaluates it.  The only
\* unchecked read is HandleInput's, with a column of the side panel: past
\* the end of row y lies row y+1, and past the last row lie the fields that
\* follow the board in the struct (currentPlayer, player1Score, player2Score
\* under type, player, isKing).
PieceAt(gs, x, y) ==
  LET i == y * Cols + x IN
  IF i < Rows * Cols
    THEN gs.board[i \div Cols][i % Cols]
    ELSE [type |-> gs.currentPlayer, player |-> gs.player1Score,
          isKing |-> (gs.player2Score % 256) # 0]

\* movingPiece.type = NONE through the reference to board[y][x]
ClearType(gs, x, y) ==
  LET i == y * Cols + x IN
  IF i < Rows * Cols
    THEN [gs EXCEPT !.board[i \div Cols][i % Cols].type = NONE]
    ELSE [gs EXCEPT !.currentPlayer = NONE]

\* ------------------------------------------------------------ FindValidMoves
\* validMoves[validMoveCount++] = (x, y), guarded by the capacity check
PushMove(moves, x, y) ==
  IF Len(moves) < MAX_VALID_MOVES THEN Append(moves, [x |-> x, y |-> y]) ELSE moves

\* One direction of a king's scan: the while (true) loop, from (px, py).
\* acc = [moves, captureAvailable].
RECURSIVE KingScan(_, _, _, _, _, _, _, _, _)
KingScan(gs, piece, px, py, dx, dy, opponentPieceFound, isAfterCapture, acc) ==
  LET newX == px + dx
      newY == py + dy
  IN
  IF ~InBounds(newX, newY) THEN acc
  ELSE IF gs.board[newY][newX].type = NONE THEN
    IF opponentPieceFound THEN
      [moves |-> PushMove(acc.moves, newX, newY),
       captureAvailable |-> acc.captureAvailable \/ Len(acc.moves) < MAX_VALID_MOVES]
    ELSE IF ~isAfterCapture THEN
      KingScan(gs, piece, newX, newY, dx, dy, opponentPieceFound, isAfterCapture,
               [acc EXCEPT !.moves = PushMove(acc.moves, newX, newY)])
    ELSE
      KingScan(gs, piece, newX, newY, dx, dy, opponentPieceFound, isAfterCapture, acc)
  ELSE IF gs.board[newY][newX].player # piece.player THEN
    IF ~opponentPieceFound
      THEN KingScan(gs, piece, newX, newY, dx, dy, TRUE, isAfterCapture, acc)
      ELSE acc
  ELSE acc

\* directions[][] of a king
KingDirections == << <<1, 1>>, <<-1, 1>>, <<1, -1>>, <<-1, -1>> >>

\* ManDirections with one backward direction for each player
ManDirectionsBothWays(player) ==
  IF player = PLAYER1 THEN << <<1, 1>>, <<-1, -1>> >> ELSE << <<1, -1>>, <<-1, 1>> >>

\* directions[][] of a man: Player 1 moves down the board, Player 2 up
ManDirections(player) ==
  IF player = PLAYER1 THEN << <<1, 1>>, <<-1, 1>> >> ELSE << <<1, -1>>, <<-1, -1>> >>

RECURSIVE KingMoves(_, _, _, _, _, _, _)
KingMoves(gs, piece, x, y, isAfterCapture, i, acc) ==
  IF i > Len(KingDirections) THEN acc
  ELSE KingMoves(gs, piece, x, y, isAfterCapture, i + 1,
                 KingScan(gs, piece, x, y, KingDirections[i][1], KingDirections[i][2],
                          FALSE, isAfterCapture, acc))

\* ManStep without the afterCapture guard on the simple move
ManStepKeepingSimpleMoves(gs, piece, x, y, dx, dy, isAfterCapture, moves) ==
  LET newX == x + dx
      newY == y + dy
      captureX == x + 2 * dx
      captureY == y + 2 * dy
  IN
  IF ~InBounds(newX, newY) THEN moves
  ELSE
    LET m1 == IF gs.board[newY][newX].type = NONE
                THEN PushMove(moves, newX, newY) ELSE moves
    IN IF /\ InBounds(captureX, captureY)
          /\ gs.board[captureY][captureX].type = NONE
          /\ gs.board[newY][newX].type # NONE
          /\ gs.board[newY][newX].player # piece.player
         THEN PushMove(m1, captureX, captureY)
         ELSE m1

\* One direction of a man: the adjacent simple move, then the jump
ManStep(gs, piece, x, y, dx, dy, isAfterCapture, moves) ==
  LET newX == x + dx
      newY == y + dy
      captureX == x + 2 * dx
      captureY == y + 2 * dy
  IN
  IF ~InBounds(newX, newY) THEN moves
  ELSE
    LET m1 == IF gs.board[newY][newX].type = NONE /\ ~isAfterCapture
                THEN PushMove(moves, newX, newY) ELSE moves
    IN IF /\ InBounds(captureX, captureY)
          /\ gs.board[captureY][captureX].type = NONE
          /\ gs.board[newY][newX].type # NONE
          /\ gs.board[newY][newX].player # piece.player
         THEN PushMove(m1, captureX, captureY)
         ELSE m1

ManMoves(gs, piece, x, y, isAfterCapture) ==
  LET d == ManDirections(piece.player)
      m1 == ManStep(gs, piece, x, y, d[1][1], d[1][2], isAfterCapture, << >>)
  IN ManStep(gs, piece, x, y, d[2][1], d[2][2], isAfterCapture, m1)

\* The candidate list FindValidMoves leaves in validMoves[0 .. validMoveCount)
Candidates(gs, x, y, isAfterCapture) ==
  LET piece == PieceAt(gs, x, y) IN
  IF piece.isKing
    THEN LET r == KingMoves(gs, piece, x, y, isAfterCapture, 1,
                            [moves |-> << >>, captureAvailable |-> FALSE])
         IN IF isAfterCapture /\ ~r.captureAvailable THEN << >> ELSE r.moves
    ELSE ManMoves(gs, piece, x, y, isAfterCapture)

FindValidMoves(gs, x, y, isAfterCapture) ==
  LET moves == Candidates(gs, x, y, isAfterCapture) IN
  [gs EXCEPT !.validMoves = moves, !.validMoveCount = Len(moves)]

\* ------------------------------------------------------------ small operations
SwitchTurn(gs) ==
  [gs EXCEPT !.currentPlayer = IF gs.currentPlayer = PLAYER1 THEN PLAYER2 ELSE PLAYER1]

IsValidMove(gs, startX, startY, endX, endY) ==
  \E i \in 1 .. gs.validMoveCount :
    gs.validMoves[i].x = endX /\ gs.validMoves[i].y = endY

PromoteToKing(gs, x, y) ==
  IF \/ gs.currentPlayer = PLAYER1 /\ y = Rows - 1
     \/ gs.currentPlayer = PLAYER2 /\ y = 0
    THEN [gs EXCEPT !.board[y][x].isKing = TRUE, !.board[y][x].type = KING]
    ELSE gs

\* ------------------------------------------------------------ HandleInput
\* gameState.player1Score++ / gameState.player2Score++ for the mover
AddScore(gs) ==
  IF gs.currentPlayer = PLAYER1
    THEN [gs EXCEPT !.player1Score = @ + 1]
    ELSE [gs EXCEPT !.player2Score = @ + 1]

\* SelectPiece without the call of FindValidMoves
SelectPieceKeepingCandidates(gs, x, y) ==
  [gs EXCEPT !.pieceSelected = TRUE, !.selectedX = x, !.selectedY = y]

\* A fresh selection: both selecting branches of HandleInput
SelectPiece(gs, x, y) ==
  FindValidMoves([gs EXCEPT !.pieceSelected = TRUE, !.selectedX = x, !.selectedY = y],
                 x, y, FALSE)

\* The king's traversal from the origin towards (x, y): the first opponent
\* piece met before the destination, if any.
RECURSIVE CaptureScan(_, _, _, _, _, _, _)
CaptureScan(gs, captureX, captureY, dx, dy, x, y) ==
  IF ~(captureX # x /\ captureY # y) THEN [found |-> FALSE, x |-> captureX, y |-> captureY]
  ELSE IF /\ gs.board[captureY][captureX].type # NONE
          /\ gs.board[captureY][captureX].player # gs.currentPlayer
    THEN [found |-> TRUE, x |-> captureX, y |-> captureY]
    ELSE CaptureScan(gs, captureX + dx, captureY + dy, dx, dy, x, y)

\* The lookahead after a king's capture: an adjacent opponent piece with an
\* empty cell right behind it, seen from the landing cell (x, y).
AdditionalCapturePossible(gs, x, y) ==
  \E directionX \in {-1, 1}, directionY \in {1, -1} :
    LET nextX == x + directionX * 2
        nextY == y + directionY * 2
    IN /\ InBounds(nextX, nextY)
       /\ gs.board[nextY][nextX].type = NONE
       /\ gs.board[y + directionY][x + directionX].player # gs.currentPlayer
       /\ gs.board[y + directionY][x + directionX].type # NONE

\* if (movingPiece.isKing) { ... }: result is the state and the isCapture flag
KingCapture(gs, x, y) ==
  LET dx == IF x > gs.selectedX THEN 1 ELSE -1
      dy == IF y > gs.selectedY THEN 1 ELSE -1
      hit == CaptureScan(gs, gs.selectedX + dx, gs.selectedY + dy, dx, dy, x, y)
  IN IF ~hit.found
       THEN [gs |-> gs, isCapture |-> FALSE]
       ELSE LET g1 == AddScore([gs EXCEPT !.board[hit.y][hit.x].type = NONE])
            IN [gs |-> g1, isCapture |-> AdditionalCapturePossible(g1, x, y)]

\* ManCapture leaving the jumped piece on the board
ManCaptureKeepingPiece(gs, x, y) ==
  [gs |-> AddScore(gs), isCapture |-> TRUE]

\* Regular piece capture: the midpoint is removed
ManCapture(gs, x, y) ==
  LET capturedX == (gs.selectedX + x) \div 2
      capturedY == (gs.selectedY + y) \div 2
  IN [gs |-> AddScore([gs EXCEPT !.board[capturedY][capturedX].type = NONE]),
      isCapture |-> TRUE]

\* if (isCapture) { ... gameState.isCapturing = true; }
HandleCapture(gs, x, y) ==
  IF Abs(gs.selectedX - x) > 1 /\ Abs(gs.selectedY - y) > 1
    THEN LET r == IF PieceAt(gs, gs.selectedX, gs.selectedY).isKing
                    THEN KingCapture(gs, x, y)
                    ELSE ManCapture(gs, x, y)
         IN [gs |-> [r.gs EXCEPT !.isCapturing = TRUE], isCapture |-> r.isCapture]
    ELSE [gs |-> gs, isCapture |-> FALSE]

\* destinationPiece = movingPiece; movingPiece.type = NONE;
MovePiece(gs, x, y) ==
  ClearType([gs EXCEPT !.board[y][x] = PieceAt(gs, gs.selectedX, gs.selectedY)],
            gs.selectedX, gs.selectedY)

\* pieceSelected = false; validMoveCount = 0; isCapturing = false; SwitchTurn
EndTurn(gs) ==
  SwitchTurn([gs EXCEPT !.pieceSelected = FALSE, !.validMoveCount = 0,
                        !.validMoves = << >>, !.isCapturing = FALSE])

\* gameState.currentPlayer as the code after the write movingPiece.type =
\* NONE sees it.  When the selected cell is board[7][8] that write lands on
\* currentPlayer itself; a build that reads the field again (g++ -O0, -O1,
\* -Os) then sees NONE, one that kept the value it had read (g++ -O2, -O3)
\* still sees the player before the write.
Seen(gs, g2, reloads) ==
  IF reloads THEN g2.currentPlayer ELSE gs.currentPlayer

\* ApplyMove without the end of turn on promotion
ApplyMoveContinuingAfterPromotion(gs, x, y, reloads) ==
  LET c == HandleCapture(gs, x, y)
      g2 == MovePiece(c.gs, x, y)
      seen == Seen(gs, g2, reloads)
      g3 == [PromoteToKing([g2 EXCEPT !.currentPlayer = seen], x, y)
               EXCEPT !.currentPlayer = g2.currentPlayer]
      g4 == FindValidMoves(g3, x, y, TRUE)
  IN IF c.isCapture /\ g4.validMoveCount > 0
       THEN [g4 EXCEPT !.pieceSelected = TRUE, !.selectedX = x, !.selectedY = y]
       ELSE EndTurn([g4 EXCEPT !.currentPlayer = seen])

\* The branch of HandleInput that moves the selected piece to (x, y)
ApplyMove(gs, x, y, reloads) ==
  LET c == HandleCapture(gs, x, y)
      g2 == MovePiece(c.gs, x, y)
      wasKing == PieceAt(g2, gs.selectedX, gs.selectedY).isKing
      seen == Seen(gs, g2, reloads)
      g3 == [PromoteToKing([g2 EXCEPT !.currentPlayer = seen], x, y)
               EXCEPT !.currentPlayer = g2.currentPlayer]
  IN IF ~wasKing /\ g3.board[y][x].isKing
       THEN EndTurn([g3 EXCEPT !.currentPlayer = seen])
       ELSE LET g4 == FindValidMoves(g3, x, y, TRUE)
            IN IF c.isCapture /\ g4.validMoveCount > 0
                 THEN [g4 EXCEPT !.pieceSelected = TRUE, !.selectedX = x, !.selectedY = y]
                 ELSE EndTurn([g4 EXCEPT !.currentPlayer = seen])

\* HandleInput selecting a piece of either player when none is selected
HandleInputSelectingAnyPiece(gs, x, y, reloads) ==
  IF ~gs.pieceSelected THEN
    IF /\ ~gs.isCapturing
       /\ InBounds(x, y)
       /\ gs.board[y][x].type # NONE
      THEN SelectPiece(gs, x, y)
      ELSE gs
  ELSE IF /\ ~gs.isCapturing
          /\ PieceAt(gs, x, y).type # NONE
          /\ PieceAt(gs, x, y).player = gs.currentPlayer
    THEN SelectPiece(gs, x, y)
  ELSE IF IsValidMove(gs, gs.selectedX, gs.selectedY, x, y)
    THEN ApplyMove(gs, x, y, reloads)
  ELSE IF gs.isCapturing
    THEN gs
    ELSE [gs EXCEPT !.pieceSelected = FALSE, !.validMoveCount = 0, !.validMoves = << >>]

\* HandleInput deselecting on an invalid move during a chain as well
HandleInputDeselectingInChain(gs, x, y, reloads) ==
  IF ~gs.pieceSelected THEN
    IF /\ ~gs.isCapturing
       /\ InBounds(x, y)
       /\ gs.board[y][x].type # NONE
       /\ gs.board[y][x].player = gs.currentPlayer
      THEN SelectPiece(gs, x, y)
      ELSE gs
  ELSE IF /\ ~gs.isCapturing
          /\ PieceAt(gs, x, y).type # NONE
          /\ PieceAt(gs, x, y).player = gs.currentPlayer
    THEN SelectPiece(gs, x, y)
  ELSE IF IsValidMove(gs, gs.selectedX, gs.selectedY, x, y)
    THEN ApplyMove(gs, x, y, reloads)
  ELSE [gs EXCEPT !.pieceSelected = FALSE, !.validMoveCount = 0, !.validMoves = << >>]

\* One left click on cell (x, y)
HandleInput(gs, x, y, reloads) ==
  IF ~gs.pieceSelected THEN
    IF /\ ~gs.isCapturing
       /\ InBounds(x, y)
       /\ gs.board[y][x].type # NONE
       /\ gs.board[y][x].player = gs.currentPlayer
      THEN SelectPiece(gs, x, y)
      ELSE gs
  ELSE IF /\ ~gs.isCapturing
          /\ PieceAt(gs, x, y).type # NONE
          /\ PieceAt(gs, x, y).player = gs.currentPlayer
    THEN SelectPiece(gs, x, y)
  ELSE IF IsValidMove(gs, gs.selectedX, gs.selectedY, x, y)
    THEN ApplyMove(gs, x, y, reloads)
  ELSE IF gs.isCapturing
    THEN gs
    ELSE [gs EXCEPT !.pieceSelected = FALSE, !.validMoveCount = 0, !.validMoves = << >>]

\* ------------------------------------------------------------ CheckGameOver
\* MoveDown looking at the bottom-right cell only
MoveDownRightOnly(gs, x, y) ==
  y + 1 < Rows /\ x + 1 < Cols /\ gs.board[y + 1][x + 1].type = NONE

\* "Move to bottom-right / bottom-left"
MoveDown(gs, x, y) ==
  \/ y + 1 < Rows /\ x + 1 < Cols /\ gs.board[y + 1][x + 1].type = NONE
  \/ y + 1 < Rows /\ x - 1 >= 0 /\ gs.board[y + 1][x - 1].type = NONE

\* "Move to top-right / top-left"
MoveUp(gs, x, y) ==
  \/ y - 1 >= 0 /\ x + 1 < Cols /\ gs.board[y - 1][x + 1].type = NONE
  \/ y - 1 >= 0 /\ x - 1 >= 0 /\ gs.board[y - 1][x - 1].type = NONE

\* "Capture bottom-right / bottom-left" of a piece whose opponent is opp
CaptureDown(gs, x, y, opp) ==
  \/ /\ y + 2 < Rows /\ x + 2 < Cols
     /\ gs.board[y + 1][x + 1].player = opp /\ gs.board[y + 2][x + 2].type = NONE
  \/ /\ y + 2 < Rows /\ x - 2 >= 0
     /\ gs.board[y + 1][x - 1].player = opp /\ gs.board[y + 2][x - 2].type = NONE

\* "Capture top-right / top-left"
CaptureUp(gs, x, y, opp) ==
  \/ /\ y - 2 >= 0 /\ x + 2 < Cols
     /\ gs.board[y - 1][x + 1].player = opp /\ gs.board[y - 2][x + 2].type = NONE
  \/ /\ y - 2 >= 0 /\ x - 2 >= 0
     /\ gs.board[y - 1][x - 1].player = opp /\ gs.board[y - 2][x - 2].type = NONE

\* The four king checks, shared by both players' blocks
KingHasMoves(gs, x, y, opp) ==
  \/ MoveDown(gs, x, y) \/ MoveUp(gs, x, y)
  \/ CaptureDown(gs, x, y, opp) \/ CaptureUp(gs, x, y, opp)

\* What sets player1HasMoves for the Player 1 piece on (x, y)
Player1PieceHasMoves(gs, x, y) ==
  \/ MoveDown(gs, x, y)
  \/ CaptureDown(gs, x, y, PLAYER2)
  \/ gs.board[y][x].type = KING /\ KingHasMoves(gs, x, y, PLAYER2)

\* What sets player2HasMoves for the Player 2 piece on (x, y)
Player2PieceHasMoves(gs, x, y) ==
  \/ MoveUp(gs, x, y)
  \/ CaptureUp(gs, x, y, PLAYER1)
  \/ gs.board[y][x].type = KING /\ KingHasMoves(gs, x, y, PLAYER1)

\* The cells counted for a player by the scan of the board
PiecesOf(gs, player) ==
  {c \in XS \X YS : gs.board[c[2]][c[1]].type # NONE /\ gs.board[c[2]][c[1]].player = player}

\* CheckGameOver consulting the moves of the player who is not to move
CheckGameOverOfWaitingPlayer(gs, cp, w) ==
  LET player1Pieces == Cardinality(PiecesOf(gs, PLAYER1))
      player2Pieces == Cardinality(PiecesOf(gs, PLAYER2))
      player1HasMoves == \E c \in PiecesOf(gs, PLAYER1) : Player1PieceHasMoves(gs, c[1], c[2])
      player2HasMoves == \E c \in PiecesOf(gs, PLAYER2) : Player2PieceHasMoves(gs, c[1], c[2])
  IN IF player1Pieces = 0 THEN [over |-> TRUE, winner |-> PLAYER2]
     ELSE IF player2Pieces = 0 THEN [over |-> TRUE, winner |-> PLAYER1]
     ELSE IF cp = PLAYER2 /\ ~player1HasMoves THEN [over |-> TRUE, winner |-> PLAYER2]
     ELSE IF cp = PLAYER1 /\ ~player2HasMoves THEN [over |-> TRUE, winner |-> PLAYER1]
     ELSE [over |-> FALSE, winner |-> w]

\* CheckGameOver's result: the return value and what winner holds afterwards
CheckGameOver(gs, cp, w) ==
  LET player1Pieces == Cardinality(PiecesOf(gs, PLAYER1))
      player2Pieces == Cardinality(PiecesOf(gs, PLAYER2))
      player1HasMoves == \E c \in PiecesOf(gs, PLAYER1) : Player1PieceHasMoves(gs, c[1], c[2])
      player2HasMoves == \E c \in PiecesOf(gs, PLAYER2) : Player2PieceHasMoves(gs, c[1], c[2])
  IN IF player1Pieces = 0 THEN [over |-> TRUE, winner |-> PLAYER2]
     ELSE IF player2Pieces = 0 THEN [over |-> TRUE, winner |-> PLAYER1]
     ELSE IF cp = PLAYER1 /\ ~player1HasMoves THEN [over |-> TRUE, winner |-> PLAYER2]
     ELSE IF cp = PLAYER2 /\ ~player2HasMoves THEN [over |-> TRUE, winner |-> PLAYER1]
     ELSE [over |-> FALSE, winner |-> w]

\* ------------------------------------------------------------ InitializeGame
\* InitializeGame without the reset of the scores
InitializeGameKeepingScores(gs) ==
  [gs EXCEPT
     !.board = [y \in YS |-> [x \in XS |->
        IF (x + y) % 2 # 0 /\ y < StartRows
          THEN [type |-> REGULAR, player |-> PLAYER1, isKing |-> FALSE]
        ELSE IF (x + y) % 2 # 0 /\ y >= Rows - StartRows
          THEN [type |-> REGULAR, player |-> PLAYER2, isKing |-> FALSE]
        ELSE [type |-> NONE, player |-> gs.board[y][x].player, isKing |-> FALSE]]],
     !.currentPlayer = PLAYER1,
     !.pieceSelected = FALSE,
     !.selectedX = -1,
     !.selectedY = -1]

InitializeGame(gs) ==
  [gs EXCEPT
     !.board = [y \in YS |-> [x \in XS |->
        IF (x + y) % 2 # 0 /\ y < StartRows
          THEN [type |-> REGULAR, player |-> PLAYER1, isKing |-> FALSE]
        ELSE IF (x + y) % 2 # 0 /\ y >= Rows - StartRows
          THEN [type |-> REGULAR, player |-> PLAYER2, isKing |-> FALSE]
        ELSE [type |-> NONE, player |-> gs.board[y][x].player, isKing |-> FALSE]]],
     !.currentPlayer = PLAYER1,
     !.player1Score = 0,
     !.player2Score = 0,
     !.pieceSelected = FALSE,
     !.selectedX = -1,
     !.selectedY = -1]

\* ------------------------------------------------------------ LoadGame
\* The save file as a load meets it.  exists, opens: FileExists and
\* is_open.  snapshot: the GameState a SaveGame wrote.  items: how much of it
\* the file holds, counted in leading items of the struct: the 8 board rows,
\* then currentPlayer, player1Score, player2Score, pieceSelected, selectedX,
\* selectedY, then the rest (validMoves, validMoveCount, isCapturing).
FullLength == Rows + 7

FileExists(file) == file.exists

\* inFile.read(&gameState, sizeof(GameState)): the bytes the file has
\* replace the head of the struct, the rest of the struct stays
Read(gs, file) ==
  LET n == file.items
      s == file.snapshot
  IN [board |-> [y \in YS |-> IF y < n THEN s.board[y] ELSE gs.board[y]],
      currentPlayer |-> IF n > Rows THEN s.currentPlayer ELSE gs.currentPlayer,
      player1Score |-> IF n > Rows + 1 THEN s.player1Score ELSE gs.player1Score,
      player2Score |-> IF n > Rows + 2 THEN s.player2Score ELSE gs.player2Score,
      pieceSelected |-> IF n > Rows + 3 THEN s.pieceSelected ELSE gs.pieceSelected,
      selectedX |-> IF n > Rows + 4 THEN s.selectedX ELSE gs.selectedX,
      selectedY |-> IF n > Rows + 5 THEN s.selectedY ELSE gs.selectedY,
      validMoves |-> IF n > Rows + 6 THEN s.validMoves ELSE gs.validMoves,
      validMoveCount |-> IF n > Rows + 6 THEN s.validMoveCount ELSE gs.validMoveCount,
      isCapturing |-> IF n > Rows + 6 THEN s.isCapturing ELSE gs.isCapturing]

LoadGame(gs, file) ==
  IF FileExists(file)
    THEN IF file.opens THEN Read(gs, file) ELSE gs
    ELSE gs

\* ------------------------------------------------------------ state
\* gameState, gameOver, winner, currentPlayer: the locals of main (the last
\* is main's own turn marker, not gameState.currentPlayer).
\* clicks: the mouse clicks processed so far.
VARIABLES gameState, gameOver, winner, currentPlayer, clicks

vars == <<gameState, gameOver, winner, currentPlayer, clicks>>

\* What the values left indeterminate by the code may be: GameState is a
\* local of main that InitializeGame fills only in part (the player of an
\* empty cell, isCapturing, validMoveCount and validMoves are never set).
IndeterminatePlayer == {PLAYER1, PLAYER2}
IndeterminateCount == {0, 1}

\* GameState gameState; the struct before InitializeGame has run
Uninitialized(stale, capturing, count) ==
  [board |-> [y \in YS |-> [x \in XS |-> [type |-> NONE, player |-> stale, isKing |-> FALSE]]],
   currentPlayer |-> stale,
   player1Score |-> 0,
   player2Score |-> 0,
   pieceSelected |-> FALSE,
   selectedX |-> 0,
   selectedY |-> 0,
   validMoves |-> [i \in 1 .. count |-> [x |-> 0, y |-> 0]],
   validMoveCount |-> count,
   isCapturing |-> capturing]

\* ------------------------------------------------------------ main
\* The tail of a frame of a game in progress: CheckGameOver with main's
\* currentPlayer, which alternates on every frame the game goes on.
\* m = [gameState, gameOver, winner, currentPlayer]
EndOfFrame(gs, m) ==
  LET r == CheckGameOver(gs, m.currentPlayer, m.winner) IN
  IF r.over
    THEN [gameState |-> gs, gameOver |-> TRUE, winner |-> r.winner,
          currentPlayer |-> m.currentPlayer]
    ELSE [gameState |-> gs, gameOver |-> FALSE, winner |-> r.winner,
          currentPlayer |-> IF m.currentPlayer = PLAYER1 THEN PLAYER2 ELSE PLAYER1]

\* One frame of main with a click on (x, y), as a function of main's locals
PlayClick(m, x, y, reloads) ==
  IF m.gameOver THEN m ELSE EndOfFrame(HandleInput(m.gameState, x, y, reloads), m)

Main == [gameState |-> gameState, gameOver |-> gameOver, winner |-> winner,
         currentPlayer |-> currentPlayer]

SetMain(m) ==
  /\ gameState' = m.gameState
  /\ gameOver' = m.gameOver
  /\ winner' = m.winner
  /\ currentPlayer' = m.currentPlayer

\* What a build can do with gameState.currentPlayer after the write through
\* movingPiece: read it again or not.  The two differ only when the selected
\* cell is board[7][8], the one cell whose storage is currentPlayer.
Builds(gs) ==
  IF gs.pieceSelected /\ gs.selectedX = Cols /\ gs.selectedY = Rows - 1
    THEN BOOLEAN ELSE {TRUE}

\* A frame in which the left button was pressed over cell (x, y)
ClickFrame ==
  /\ ~gameOver
  /\ clicks < MaxClicks
  /\ \E x \in ClickXS, y \in YS, reloads \in Builds(gameState) :
       SetMain(PlayClick(Main, x, y, reloads))
  /\ clicks' = clicks + 1

\* A frame without input
IdleFrame ==
  /\ ~gameOver
  /\ SetMain(EndOfFrame(gameState, Main))
  /\ UNCHANGED clicks

\* A frame of the game-over screen in which R is pressed
RestartFrame ==
  /\ gameOver
  /\ gameState' = InitializeGame(gameState)
  /\ gameOver' = FALSE
  /\ winner' = NoWinner
  /\ currentPlayer' = PLAYER1
  /\ UNCHANGED clicks

\* ------------------------------------------------------------ openings
\* Click sequences played from the starting position; the games checked
\* begin where they end.  Each is a run of the program itself (Replay).
StartOpening == << >>

\* Player 1's man on (5, 2) can jump (4, 3) and then (2, 5)
DoubleJumpOpening ==
  << <<7, 2>>, <<6, 3>>, <<2, 5>>, <<3, 4>>, <<6, 3>>, <<7, 4>>, <<3, 4>>, <<4, 3>>,
     <<6, 1>>, <<7, 2>>, <<1, 6>>, <<2, 5>> >>

\* Player 1's man on (4, 5) can jump (3, 6) onto the far row (2, 7)
PromotionOpening ==
  << <<3, 2>>, <<4, 3>>, <<4, 5>>, <<5, 4>>, <<4, 3>>, <<3, 4>>, <<0, 5>>, <<1, 4>>,
     <<3, 4>>, <<4, 5>>, <<1, 6>>, <<0, 5>>, <<1, 2>>, <<0, 3>>, <<2, 7>>, <<1, 6>> >>

\* Player 1's king on (2, 7) can jump (3, 6) and then (5, 4)
KingChainOpening ==
  PromotionOpening \o << <<4, 5>>, <<2, 7>>, <<4, 7>>, <<3, 6>> >>

\* Player 1's king on (2, 7) can jump (3, 6); from its landing cell the next
\* piece to jump, (2, 3), is two cells away
KingLookaheadOpening ==
  PromotionOpening \o << <<4, 5>>, <<2, 7>>, <<1, 4>>, <<2, 3>>, <<5, 2>>, <<6, 3>>,
                         <<4, 7>>, <<3, 6>> >>

\* Player 2 is one move, (1, 6) to (0, 5), from having no move left
BlockadeOpening ==
  << <<7, 2>>, <<6, 3>>, <<6, 5>>, <<5, 4>>, <<6, 1>>, <<7, 2>>, <<7, 6>>, <<6, 5>>,
     <<3, 2>>, <<2, 3>>, <<2, 5>>, <<3, 4>>, <<2, 1>>, <<3, 2>>, <<6, 7>>, <<7, 6>>,
     <<3, 2>>, <<4, 3>>, <<1, 6>>, <<2, 5>>, <<4, 1>>, <<3, 2>>, <<0, 7>>, <<1, 6>>,
     <<3, 0>>, <<4, 1>>, <<0, 5>>, <<1, 4>>, <<7, 0>>, <<6, 1>>, <<1, 6>>, <<0, 5>>,
     <<1, 0>>, <<2, 1>>, <<2, 7>>, <<1, 6>>, <<6, 3>>, <<7, 4>>, <<1, 4>>, <<0, 3>>,
     <<7, 2>>, <<6, 3>>, <<0, 5>>, <<1, 4>>, <<6, 1>>, <<7, 2>> >>

\* Player 1 has captured once and stands on (7, 6); Player 2 is to move
PanelOpening ==
  << <<7, 2>>, <<6, 3>>, <<6, 5>>, <<7, 4>>, <<3, 2>>, <<4, 3>>, <<7, 6>>, <<6, 5>>,
     <<6, 3>>, <<5, 4>>, <<0, 5>>, <<1, 4>>, <<5, 4>>, <<7, 6>> >>

\* As PanelOpening, with Player 1's men on (3, 2) and (2, 1) still in place
PanelTurnOpening ==
  << <<7, 2>>, <<6, 3>>, <<6, 5>>, <<7, 4>>, <<1, 2>>, <<0, 3>>, <<7, 6>>, <<6, 5>>,
     <<6, 3>>, <<5, 4>>, <<0, 5>>, <<1, 4>>, <<5, 4>>, <<7, 6>> >>

\* Each player has captured, Player 1 once; Player 2 is to move and the long
\* diagonal from (7, 6) to (1, 0) is empty
PanelKingOpening ==
  << <<3, 2>>, <<4, 3>>, <<6, 5>>, <<7, 4>>, <<4, 3>>, <<5, 4>>, <<7, 6>>, <<6, 5>>,
     <<2, 1>>, <<3, 2>>, <<6, 5>>, <<4, 3>>, <<2, 1>>, <<1, 0>>, <<3, 2>>, <<7, 4>>,
     <<6, 3>>, <<3, 2>>, <<2, 3>> >>

\* Player 1's man on (7, 2) can jump to (5, 4) and from there to (7, 6),
\* while no man of Player 2 has an empty cell to step to
MidChainOpening ==
  << <<1, 2>>, <<2, 3>>, <<0, 5>>, <<1, 4>>, <<7, 2>>, <<6, 3>>, <<6, 5>>, <<5, 4>>,
     <<6, 3>>, <<7, 4>>, <<5, 6>>, <<6, 5>>, <<2, 1>>, <<1, 2>>, <<4, 7>>, <<5, 6>>,
     <<3, 0>>, <<2, 1>>, <<5, 4>>, <<4, 3>>, <<6, 1>>, <<7, 2>>, <<4, 5>>, <<3, 4>>,
     <<7, 2>>, <<6, 3>>, <<1, 6>>, <<0, 5>>, <<7, 0>>, <<6, 1>>, <<6, 5>>, <<5, 4>>,
     <<1, 2>>, <<0, 3>>, <<7, 6>>, <<6, 5>>, <<6, 3>>, <<4, 5>>, <<0, 7>>, <<1, 6>>,
     <<0, 1>>, <<1, 2>>, <<6, 5>>, <<5, 4>>, <<1, 0>>, <<0, 1>>, <<5, 6>>, <<6, 5>>,
     <<6, 1>>, <<7, 2>>, <<6, 7>>, <<5, 6>>, <<5, 0>>, <<6, 1>>, <<5, 4>>, <<6, 3>> >>

Openings ==
  {StartOpening, DoubleJumpOpening, PromotionOpening, KingChainOpening,
   KingLookaheadOpening, BlockadeOpening, PanelOpening}

\* the openings that lead deeper into a game
LateOpenings == {PanelTurnOpening, PanelKingOpening, MidChainOpening}

\* the openings stay on the board, where every build does the same
RECURSIVE Replay(_, _, _)
Replay(m, opening, i) ==
  IF i > Len(opening) \/ m.gameOver THEN m
  ELSE Replay(PlayClick(m, opening[i][1], opening[i][2], TRUE), opening, i + 1)

\* main before its loop: InitializeGame on the fresh struct
Started(stale, capturing, count) ==
  [gameState |-> InitializeGame(Uninitialized(stale, capturing, count)),
   gameOver |-> FALSE, winner |-> NoWinner, currentPlayer |-> PLAYER1]

Init ==
  /\ \E stale \in IndeterminatePlayer, capturing \in BOOLEAN, count \in IndeterminateCount,
        opening \in Openings :
       LET m == Replay(Started(stale, capturing, count), opening, 1) IN
         /\ gameState = m.gameState
         /\ gameOver = m.gameOver
         /\ winner = m.winner
         /\ currentPlayer = m.currentPlayer
  /\ clicks = 0

Next == ClickFrame \/ IdleFrame \/ RestartFrame

Spec == Init /\ [][Next]_vars

\* ------------------------------------------------------------ late games
\* The games of Spec, begun after the late openings
InitLate ==
  /\ \E stale \in IndeterminatePlayer, capturing \in BOOLEAN, count \in IndeterminateCount,
        opening \in LateOpenings :
       LET m == Replay(Started(stale, capturing, count), opening, 1) IN
         /\ gameState = m.gameState
         /\ gameOver = m.gameOver
         /\ winner = m.winner
         /\ currentPlayer = m.currentPlayer
  /\ clicks = 0

SpecLate == InitLate /\ [][Next]_vars

\* ------------------------------------------------------------ chains
\* A frame in which the player in a capture chain clicks a candidate.  A
\* chain begun within MaxClicks may be clicked to its end: it gets as many
\* further clicks as a player has pieces at the start.
ChainClick ==
  /\ ~gameOver
  /\ gameState.isCapturing
  /\ gameState.pieceSelected
  /\ clicks < MaxClicks + StartPieces
  /\ \E i \in 1 .. gameState.validMoveCount, reloads \in Builds(gameState) :
       SetMain(PlayClick(Main, gameState.validMoves[i].x, gameState.validMoves[i].y,
                         reloads))
  /\ clicks' = clicks + 1

\* the openings from which a chain is a click or two away
ChainOpenings ==
  {DoubleJumpOpening, KingChainOpening, PanelOpening, MidChainOpening}

InitChains ==
  /\ \E opening \in ChainOpenings :
       LET m == Replay(Started(PLAYER1, FALSE, 0), opening, 1) IN
         /\ gameState = m.gameState
         /\ gameOver = m.gameOver
         /\ winner = m.winner
         /\ currentPlayer = m.currentPlayer
  /\ clicks = 0

\* A click outside a chain.  (In a chain a click on a cell that is no
\* candidate returns at once, lines 446-449.)
FreeClick == ~gameState.isCapturing /\ ClickFrame

NextChains == FreeClick \/ IdleFrame \/ RestartFrame \/ ChainClick

\* The steps of ChainClick, told by its guard and the click counter: in a
\* chain NextChains has no other step that counts a click.
CandidateClicked ==
  /\ ~gameOver
  /\ gameState.isCapturing
  /\ gameState.pieceSelected
  /\ gameState.validMoveCount > 0
  /\ clicks < MaxClicks + StartPieces
  /\ clicks' = clicks + 1

\* the player in a chain keeps clicking candidates
SpecChains == InitChains /\ [][NextChains]_vars /\ WF_clicks(CandidateClicked)

\* ------------------------------------------------------------ loads
\* lengths of the save file, in items: empty, cut within the board, cut
\* after currentPlayer, whole
Lengths == {0, StartRows, Rows + 1, FullLength}

\* what SaveGame wrote in an earlier run: the game after an opening
Snapshots ==
  {Replay(Started(PLAYER1, FALSE, 0), opening, 1).gameState :
     opening \in {PromotionOpening}}

\* a snapshot of full length with a byte changed on disk
Damaged(snapshot) == [snapshot EXCEPT !.player2Score = 1 - @]

Files ==
  [exists : BOOLEAN, opens : BOOLEAN, items : Lengths,
   snapshot : Snapshots \cup {Damaged(s) : s \in Snapshots}]

\* A frame without a click in which L is pressed (main, lines 94-101)
LoadFrame ==
  /\ ~gameOver
  /\ \E file \in Files :
       SetMain(EndOfFrame(IF FileExists(file) THEN LoadGame(gameState, file)
                          ELSE gameState, Main))
  /\ UNCHANGED clicks

InitLoads ==
  /\ \E opening \in {StartOpening, BlockadeOpening} :
       LET m == Replay(Started(PLAYER1, FALSE, 0), opening, 1) IN
         /\ gameState = m.gameState
         /\ gameOver = m.gameOver
         /\ winner = m.winner
         /\ currentPlayer = m.currentPlayer
  /\ clicks = 0

NextLoads == ClickFrame \/ IdleFrame \/ RestartFrame \/ LoadFrame

SpecLoads == InitLoads /\ [][NextLoads]_vars

\* ------------------------------------------------------------ boards
\* Boards for the two pure functions, FindValidMoves and CheckGameOver:
\* every placement of up to FreePieces pieces on the dark cells, every
\* placement of up to LinePieces pieces on the long diagonal, and the two
\* positions in which one side alone is on the board and cannot move.
DarkCells == {c \in XS \X YS : (c[1] + c[2]) % 2 = 1}

\* a man never stands on the row that crowns it
Placements(cells) ==
  {q \in [x : XS, y : YS, player : {PLAYER1, PLAYER2}, isKing : BOOLEAN] :
     /\ <<q.x, q.y>> \in cells
     /\ ~q.isKing => q.y # (IF q.player = PLAYER1 THEN Rows - 1 ELSE 0)}

Distinct(ps) == \A p, q \in ps : (p.x = q.x /\ p.y = q.y) => p = q

RECURSIVE PieceSets(_, _)
PieceSets(cells, n) ==
  IF n = 0 THEN {{}}
  ELSE LET smaller == PieceSets(cells, n - 1) IN
       smaller \cup {ps \cup {q} : <<ps, q>> \in
                       {pq \in smaller \X Placements(cells) : Distinct(pq[1] \cup {pq[2]})}}

\* the diagonal from (0, 7) to (7, 0)
LineCells == {c \in DarkCells : c[1] + c[2] = Cols - 1}

BlockedPlayer1 ==
  {[x |-> x, y |-> Rows - 1 - (x % 2), player |-> PLAYER1, isKing |-> x % 2 = 0] : x \in XS}

BlockedPlayer2 ==
  {[x |-> x, y |-> 1 - (x % 2), player |-> PLAYER2, isKing |-> x % 2 = 1] : x \in XS}

BoardFamily(free, line) ==
  PieceSets(DarkCells, free) \cup PieceSets(LineCells, line)
    \cup {BlockedPlayer1, BlockedPlayer2}

\* The struct holding the pieces ps, nothing selected, each score the
\* opponent pieces missing; stale is the player left in the empty cells
BoardState(ps, stale) ==
  [board |-> [y \in YS |-> [x \in XS |->
      IF \E q \in ps : q.x = x /\ q.y = y
        THEN LET q == CHOOSE q \in ps : q.x = x /\ q.y = y
             IN [type |-> IF q.isKing THEN KING ELSE REGULAR, player |-> q.player,
                 isKing |-> q.isKing]
        ELSE [type |-> NONE, player |-> stale, isKing |-> FALSE]]],
   currentPlayer |-> PLAYER1,
   player1Score |-> StartPieces - Cardinality({q \in ps : q.player = PLAYER2}),
   player2Score |-> StartPieces - Cardinality({q \in ps : q.player = PLAYER1}),
   pieceSelected |-> FALSE,
   selectedX |-> -1,
   selectedY |-> -1,
   validMoves |-> << >>,
   validMoveCount |-> 0,
   isCapturing |-> FALSE]

InitBoards ==
  /\ \E ps \in BoardFamily(FreePieces, LinePieces), stale \in IndeterminatePlayer : gameState = BoardState(ps, stale)
  /\ gameOver = FALSE
  /\ winner = NoWinner
  /\ currentPlayer \in {PLAYER1, PLAYER2}
  /\ clicks = 0

\* FindValidMoves applied to an occupied cell; the arguments are kept in
\* selectedX, selectedY and isCapturing, as HandleInput keeps them
GenerateMoves ==
  /\ ~gameOver
  /\ ~gameState.pieceSelected
  /\ \E x \in XS, y \in YS, isAfterCapture \in BOOLEAN :
       /\ gameState.board[y][x].type # NONE
       /\ gameState' = FindValidMoves([gameState EXCEPT !.pieceSelected = TRUE,
                                                        !.selectedX = x,
                                                        !.selectedY = y,
                                                        !.isCapturing = isAfterCapture],
                                      x, y, isAfterCapture)
  /\ UNCHANGED <<gameOver, winner, currentPlayer, clicks>>

\* CheckGameOver applied as main applies it
EvaluateBoard == IdleFrame

NextBoards == GenerateMoves \/ EvaluateBoard

SpecBoards == InitBoards /\ [][NextBoards]_vars

\* ------------------------------------------------------------ endgames
\* Games continued from a position late in play: two men left, one of each
\* player, the man on `near' owned by `owner'.
TwoMen(near, far, owner) ==
  {[x |-> near[1], y |-> near[2], player |-> owner, isKing |-> FALSE],
   [x |-> far[1], y |-> far[2], player |-> Other(owner), isKing |-> FALSE]}

\* Player 1's king in the middle of the board, its four diagonals empty, and
\* a man of Player 2 away from them
KingAndMan ==
  {[x |-> 3, y |-> 4, player |-> PLAYER1, isKing |-> TRUE],
   [x |-> 0, y |-> 3, player |-> PLAYER2, isKing |-> FALSE]}

Endgames ==
  {TwoMen(<<1, 6>>, <<2, 5>>, owner) : owner \in {PLAYER1, PLAYER2}} \cup {KingAndMan}

InitEndgames ==
  /\ \E ps \in Endgames, stale \in IndeterminatePlayer, toMove \in {PLAYER1, PLAYER2} :
       gameState = [BoardState(ps, stale) EXCEPT !.currentPlayer = toMove]
  /\ gameOver = FALSE
  /\ winner = NoWinner
  /\ currentPlayer \in {PLAYER1, PLAYER2}
  /\ clicks = 0

SpecEndgames == InitEndgames /\ [][Next]_vars

\* ------------------------------------------------------------ vacated cells
\* FindValidMoves on a cell that a piece has left.  The move leaves the
\* cell with type NONE and the owner and rank of the piece (line 415), and
\* selectedX, selectedY keep naming it after the turn has ended.
InitVacated ==
  /\ \E ps \in PieceSets(DarkCells, FreePieces) \ {{}}, stale \in IndeterminatePlayer,
        v \in DarkCells, owner \in {PLAYER1, PLAYER2}, rank \in BOOLEAN :
       /\ \A q \in ps : <<q.x, q.y>> # v
       /\ gameState = [BoardState(ps, stale) EXCEPT
                         !.board[v[2]][v[1]] = [type |-> NONE, player |-> owner,
                                                isKing |-> rank],
                         !.selectedX = v[1],
                         !.selectedY = v[2]]
  /\ gameOver = FALSE
  /\ winner = NoWinner
  /\ currentPlayer = PLAYER1
  /\ clicks = 0

\* FindValidMoves applied to the vacated cell
GenerateMovesOnVacated ==
  /\ ~gameState.pieceSelected
  /\ gameState.board[gameState.selectedY][gameState.selectedX].type = NONE
  /\ \E isAfterCapture \in BOOLEAN :
       gameState' = FindValidMoves([gameState EXCEPT !.pieceSelected = TRUE,
                                                     !.isCapturing = isAfterCapture],
                                   gameState.selectedX, gameState.selectedY,
                                   isAfterCapture)
  /\ UNCHANGED <<gameOver, winner, currentPlayer, clicks>>

SpecVacated == InitVacated /\ [][GenerateMovesOnVacated]_vars

\* ------------------------------------------------------------ properties
\* Vocabulary of the properties below, read off a pair of states.
Cells == XS \X YS

At(gs, c) == gs.board[c[2]][c[1]]

Occupied(gs, c) == At(gs, c).type # NONE

Count(gs, player) == Cardinality(PiecesOf(gs, player))

SelectedCell(gs) == <<gs.selectedX, gs.selectedY>>

\* the step is a frame that processed a click
ClickStep == clicks' = clicks + 1

\* cells that were empty before the step and hold a piece after it
Landings(gs, after) == {c \in Cells : ~Occupied(gs, c) /\ Occupied(after, c)}

\* cells that held a piece before the step and are empty after it
Emptied(gs, after) == {c \in Cells : Occupied(gs, c) /\ ~Occupied(after, c)}

\* to is reached from from along a diagonal
Diagonal(from, to) == Abs(to[1] - from[1]) = Abs(to[2] - from[2]) /\ to # from

\* the cells strictly between from and to on their diagonal
Between(from, to) ==
  {c \in Cells : /\ Diagonal(from, c) /\ Diagonal(c, to)
                 /\ Abs(c[1] - from[1]) + Abs(to[1] - c[1]) = Abs(to[1] - from[1])
                 /\ Abs(c[2] - from[2]) + Abs(to[2] - c[2]) = Abs(to[2] - from[2])}

\* the click moved the selected piece: the cell it landed on
MoveApplied(to) ==
  /\ ClickStep
  /\ gameState.pieceSelected
  /\ to \in Landings(gameState, gameState')

\* the piece the selection designates before the step
Mover == PieceAt(gameState, gameState.selectedX, gameState.selectedY)

\* the move to cell to jumped over a piece
JumpApplied(to) ==
  /\ MoveApplied(to)
  /\ \E c \in Between(SelectedCell(gameState), to) : Occupied(gameState, c)

\* the turn ended in this step, as HandleInput ends it
TurnEnded ==
  /\ ~gameState'.pieceSelected
  /\ gameState'.validMoveCount = 0
  /\ ~gameState'.isCapturing
  /\ gameState'.currentPlayer = Other(gameState.currentPlayer)

\* ---- C1
\* The chain step of C1: the selected piece jumps from its cell to an empty
\* cell over an opponent piece, which is removed, and stays the selection.
ChainJump ==
  LET from == SelectedCell(gameState) IN
  /\ gameState.pieceSelected
  /\ from \in Cells
  /\ ~Occupied(gameState', from)
  /\ \E to \in Landings(gameState, gameState') :
       /\ Diagonal(from, to)
       /\ Abs(to[1] - from[1]) >= 2
       /\ At(gameState', to).player = Mover.player
       /\ \E c \in Between(from, to) :
            /\ Occupied(gameState, c)
            /\ At(gameState, c).player # Mover.player
            /\ ~Occupied(gameState', c)
       /\ gameState'.pieceSelected => SelectedCell(gameState') = to

\* C1: while a capture sequence is in progress (isCapturing holds), a click
\* either leaves the whole game state unchanged or moves the piece on
\* (selectedX, selectedY) by a jump that removes an opponent piece; no simple
\* move is applied and no other piece becomes the selection.
ChainOnlyCapturingPiece ==
  [][(ClickStep /\ gameState.isCapturing) => (gameState' = gameState \/ ChainJump)]_vars

\* ---- C2
\* the candidates regenerated from cell to with afterCapture = true
Regenerated(to) == Candidates(gameState', to[1], to[2], TRUE)

\* the move to cell to removed a piece without crowning the mover
CaptureWithoutPromotion(to) ==
  /\ MoveApplied(to)
  /\ Emptied(gameState, gameState') \ {SelectedCell(gameState)} # {}
  /\ At(gameState', to).isKing = Mover.isKing

\* C2: after an applied capture that does not promote, the piece stays
\* selected on its landing cell, the chain stays in progress and
\* currentPlayer stays if the candidates regenerated from the landing cell
\* with afterCapture = true are non-empty; the turn ends if they are empty.
ChainContinuesWhileCapturesRemain ==
  [][\A to \in Cells : CaptureWithoutPromotion(to) =>
        IF Regenerated(to) # << >>
          THEN /\ gameState'.pieceSelected
               /\ SelectedCell(gameState') = to
               /\ gameState'.isCapturing
               /\ gameState'.currentPlayer = gameState.currentPlayer
          ELSE TurnEnded]_vars

\* ---- C3
\* a move sequence was completed by this step: a move was applied and no
\* piece is left selected to continue it
SequenceCompleted ==
  /\ \E to \in Cells : MoveApplied(to)
  /\ ~gameState'.pieceSelected

\* C3: gameState.currentPlayer flips exactly once per completed move
\* sequence and at no other time: on a click it changes if and only if the
\* click completes a move sequence, and a frame without a click leaves it.
TurnFlipsOncePerSequence ==
  [][/\ ClickStep =>
          ((gameState'.currentPlayer # gameState.currentPlayer) <=> SequenceCompleted)
     /\ (~ClickStep /\ ~gameOver) => gameState'.currentPlayer = gameState.currentPlayer]_vars

\* ---- C4
\* the row on which a man of the player is crowned
FarRow(player) == IF player = PLAYER1 THEN Rows - 1 ELSE 0

\* the move to cell to turned a man into a king
Promoted(to) ==
  /\ MoveApplied(to)
  /\ Mover.type = REGULAR
  /\ At(gameState', to).type = KING

\* C4: a move that turns a man into a king ends the turn in the same click:
\* selection, candidates and chain flag cleared, currentPlayer switched,
\* whatever the new king could capture from its landing cell.
PromotionEndsTurn ==
  [][\A to \in Cells : Promoted(to) => TurnEnded]_vars

\* A man has just jumped onto its far row and been crowned there (its
\* origin, still in selectedX and selectedY, is empty and was a man's), the
\* turn has passed, and the new king had a capture from its landing cell.
PromotedWithCaptureAvailable ==
  LET from == SelectedCell(gameState) IN
  /\ clicks > 0
  /\ ~gameState.pieceSelected
  /\ from \in Cells
  /\ ~Occupied(gameState, from) /\ ~At(gameState, from).isKing
  /\ \E to \in Cells :
       /\ Diagonal(from, to) /\ Abs(to[1] - from[1]) = 2
       /\ At(gameState, to).type = KING
       /\ At(gameState, to).player = Other(gameState.currentPlayer)
       /\ to[2] = FarRow(At(gameState, to).player)
       /\ Candidates(gameState, to[1], to[2], TRUE) # << >>

\* ---- C5
PieceCount(gs) == Count(gs, PLAYER1) + Count(gs, PLAYER2)

\* C5: an applied capture removes exactly one piece, the first piece met on
\* the diagonal from origin to landing, which is an opponent piece; only the
\* origin (emptied), the landing cell (the moved piece, same owner) and the
\* captured cell (emptied) change, and the piece count drops by exactly 1.
CaptureRemovesOnePiece ==
  [][\A to \in Cells : JumpApplied(to) =>
        LET from == SelectedCell(gameState) IN
        /\ At(gameState', to).player = Mover.player
        /\ PieceCount(gameState') = PieceCount(gameState) - 1
        /\ \E c \in Between(from, to) :
             /\ Occupied(gameState, c)
             /\ At(gameState, c).player # Mover.player
             /\ \A d \in Between(from, c) : ~Occupied(gameState, d)
             /\ Emptied(gameState, gameState') = {from, c}
             /\ \A d \in Cells \ {from, to, c} : At(gameState', d) = At(gameState, d)]_vars

\* ---- C6
\* C6: each score is the number of opponent pieces removed so far:
\* player1Score = 12 - Player 2's pieces, player2Score = 12 - Player 1's.
ScoresCountCaptures ==
  /\ gameState.player1Score = StartPieces - Count(gameState, PLAYER2)
  /\ gameState.player2Score = StartPieces - Count(gameState, PLAYER1)

\* ---- C7
\* some piece of the player has a candidate on a fresh selection
HasCandidates(gs, player) ==
  \E c \in PiecesOf(gs, player) : Candidates(gs, c[1], c[2], FALSE) # << >>

\* C7: the running program declares the game over only by elimination or
\* when the player to move, gameState.currentPlayer, owns a piece and has no
\* move or capture, in which case the other player wins; never because the
\* player not to move is immobile.
GameOverOnlyForPlayerToMove ==
  [][(~gameOver /\ gameOver') =>
        \/ Count(gameState', PLAYER1) = 0
        \/ Count(gameState', PLAYER2) = 0
        \/ /\ Count(gameState', gameState'.currentPlayer) > 0
           /\ ~HasCandidates(gameState', gameState'.currentPlayer)
           /\ winner' = Other(gameState'.currentPlayer)]_vars

\* ---- C8
\* The ordered rules: the winner, or NoWinner while the game goes on.
\* A piece has a move or capture when FindValidMoves, on a fresh selection,
\* leaves a non-empty candidate list for it.
Outcome(gs, playerToMove) ==
  IF Count(gs, PLAYER1) = 0 THEN PLAYER2
  ELSE IF Count(gs, PLAYER2) = 0 THEN PLAYER1
  ELSE IF Count(gs, playerToMove) > 0 /\ ~HasCandidates(gs, playerToMove)
    THEN Other(playerToMove)
  ELSE NoWinner

\* the step applied CheckGameOver to the board, for the player currentPlayer
Evaluated == ~gameOver /\ gameState' = gameState

\* C8: for every board and player to move, CheckGameOver returns the outcome
\* of the ordered rules (a) elimination, (b) the player to move owns a piece
\* and none of its pieces has a candidate, (c) ongoing.
EvaluationFollowsRules ==
  [][Evaluated =>
        LET o == Outcome(gameState, currentPlayer) IN
        /\ gameOver' <=> o # NoWinner
        /\ gameOver' => winner' = o]_vars

\* Both players own pieces, the player evaluated has no candidate, and the
\* game was given to the other player.
BlockedMoverLost ==
  /\ gameOver
  /\ Count(gameState, PLAYER1) > 0
  /\ Count(gameState, PLAYER2) > 0
  /\ ~HasCandidates(gameState, currentPlayer)
  /\ winner = Other(currentPlayer)

\* ---- C9
\* the player evaluated owns a piece and has no candidate
MoverStuck ==
  /\ Evaluated
  /\ Count(gameState, currentPlayer) > 0
  /\ ~HasCandidates(gameState, currentPlayer)

\* C9 as stated: whenever the player to move has pieces but no candidate,
\* CheckGameOver gives the game to the opponent, on every board.
StuckMoverAlwaysLoses ==
  [][MoverStuck => (gameOver' /\ winner' = Other(currentPlayer))]_vars

\* C9 as amended: whenever the player to move has pieces but no candidate
\* and the opponent owns at least one piece, CheckGameOver gives the game to
\* the opponent.
StuckMoverLosesToPresentOpponent ==
  [][(MoverStuck /\ Count(gameState, Other(currentPlayer)) > 0) =>
        (gameOver' /\ winner' = Other(currentPlayer))]_vars

\* The game was decided against a king that could not move, its opponent
\* being on the board.
StuckKingLost ==
  /\ gameOver
  /\ winner = Other(currentPlayer)
  /\ Count(gameState, winner) > 0
  /\ ~HasCandidates(gameState, currentPlayer)
  /\ \E c \in PiecesOf(gameState, currentPlayer) : At(gameState, c).isKing

\* ---- C10
\* FindValidMoves has just run with afterCapture = true on a cell with a man
ManAfterCapture ==
  /\ gameState.pieceSelected
  /\ gameState.isCapturing
  /\ SelectedCell(gameState) \in Cells
  /\ Occupied(gameState, SelectedCell(gameState))
  /\ ~At(gameState, SelectedCell(gameState)).isKing

\* C10: for a man, FindValidMoves with afterCapture = true leaves no
\* simple-move candidate: every candidate is two diagonal steps away, over
\* an opponent piece, on an empty cell of the grid.
ManAfterCaptureOnlyJumps ==
  ManAfterCapture =>
    \A i \in 1 .. gameState.validMoveCount :
      LET from == SelectedCell(gameState)
          to == <<gameState.validMoves[i].x, gameState.validMoves[i].y>>
          mid == <<(from[1] + to[1]) \div 2, (from[2] + to[2]) \div 2>>
      IN /\ to \in Cells
         /\ Abs(to[1] - from[1]) = 2 /\ Abs(to[2] - from[2]) = 2
         /\ ~Occupied(gameState, to)
         /\ Occupied(gameState, mid)
         /\ At(gameState, mid).player # At(gameState, from).player

\* A man whose forward neighbour is empty was given a jump, and only jumps,
\* with afterCapture = true.
ManAfterCaptureHasJump ==
  /\ ManAfterCapture
  /\ gameState.validMoveCount > 0
  /\ LET from == SelectedCell(gameState)
         dy == IF At(gameState, from).player = PLAYER1 THEN 1 ELSE -1
     IN \E dx \in {-1, 1} :
          /\ <<from[1] + dx, from[2] + dy>> \in Cells
          /\ ~Occupied(gameState, <<from[1] + dx, from[2] + dy>>)

\* ---- C11
\* the candidates stored for the selection, as a set of cells
StoredCandidates(gs) ==
  {<<gs.validMoves[i].x, gs.validMoves[i].y>> : i \in 1 .. gs.validMoveCount}

\* the only pieces on the board are a man of owner on (1, 6) and a man of
\* the other player on (2, 5)
OnlyTwoMen(gs, owner) ==
  /\ \A c \in Cells : Occupied(gs, c) <=> c \in {<<1, 6>>, <<2, 5>>}
  /\ At(gs, <<1, 6>>) = [type |-> REGULAR, player |-> owner, isKing |-> FALSE]
  /\ At(gs, <<2, 5>>) = [type |-> REGULAR, player |-> Other(owner), isKing |-> FALSE]

\* the man of owner on (1, 6) is selected with afterCapture = false
ManOnOneSixSelected(owner) ==
  /\ OnlyTwoMen(gameState, owner)
  /\ gameState.currentPlayer = owner
  /\ gameState.pieceSelected
  /\ SelectedCell(gameState) = <<1, 6>>
  /\ ~gameState.isCapturing

\* the scenario of C11 for the man of owner on (1, 6): its candidates are
\* `candidates'; moving it to (3, 4) removes the man on (2, 5), adds one to
\* the score of owner, leaves no candidate from (3, 4) with afterCapture =
\* true and ends the turn
JumpFromOneSix(owner, candidates) ==
  ManOnOneSixSelected(owner) =>
    /\ StoredCandidates(gameState) = candidates
    /\ MoveApplied(<<3, 4>>) =>
         /\ ~Occupied(gameState', <<2, 5>>)
         /\ At(gameState', <<3, 4>>).player = owner
         /\ IF owner = PLAYER1
              THEN gameState'.player1Score = gameState.player1Score + 1
              ELSE gameState'.player2Score = gameState.player2Score + 1
         /\ Candidates(gameState', 3, 4, TRUE) = << >>
         /\ TurnEnded

\* C11 as stated: with a Player 1 man on (1, 6) and a Player 2 man on
\* (2, 5) alone on the board, the candidates of (1, 6) are {(3, 4)}, and
\* moving there removes (2, 5), adds one to Player 1's score and ends the
\* turn with no further candidate.
FirstManJumpsFromOneSix == [][JumpFromOneSix(PLAYER1, {<<3, 4>>})]_vars

\* C11 for the player that moves towards row 0: with a Player 2 man on
\* (1, 6) and a Player 1 man on (2, 5) alone on the board, the candidates
\* of (1, 6) are the jump to (3, 4) and the step to (0, 5); moving to
\* (3, 4) removes (2, 5), adds one to Player 2's score and ends the turn
\* with no further candidate.
SecondManJumpsFromOneSix == [][JumpFromOneSix(PLAYER2, {<<3, 4>>, <<0, 5>>})]_vars

\* Player 2's man has jumped from (1, 6) to (3, 4) and is alone on the board
SecondManJumped ==
  /\ clicks > 0
  /\ \A c \in Cells : Occupied(gameState, c) <=> c = <<3, 4>>
  /\ At(gameState, <<3, 4>>) = [type |-> REGULAR, player |-> PLAYER2, isKing |-> FALSE]
  /\ gameState.player2Score = StartPieces
  /\ gameState.currentPlayer = PLAYER1
  /\ ~gameState.pieceSelected

\* ---- C12
Directions == {<<1, 1>>, <<1, -1>>, <<-1, 1>>, <<-1, -1>>}

\* the cell k steps from c in direction d
Step(c, d, k) == <<c[1] + k * d[1], c[2] + k * d[2]>>

\* the empty cells from c in direction d before the first piece
ClearRun(gs, c, d) ==
  {Step(c, d, k) : k \in {k \in 1 .. Cols :
     \A j \in 1 .. k : Step(c, d, j) \in Cells /\ ~Occupied(gs, Step(c, d, j))}}

\* the first piece from c in direction d, if it is on the board
FirstPiece(gs, c, d) == Step(c, d, Cardinality(ClearRun(gs, c, d)) + 1)

\* the cell right behind the first piece, when that piece is an opponent's
\* and the cell is an empty cell of the board
KingLanding(gs, c, d) ==
  LET first == FirstPiece(gs, c, d)
      behind == Step(first, d, 1)
  IN IF /\ first \in Cells
        /\ At(gs, first).player # At(gs, c).player
        /\ behind \in Cells
        /\ ~Occupied(gs, behind)
       THEN {behind} ELSE {}

\* what the rules of C12 offer the king on c
KingRule(gs, c, isAfterCapture) ==
  UNION {(IF isAfterCapture THEN {} ELSE ClearRun(gs, c, d)) \cup KingLanding(gs, c, d) :
           d \in Directions}

\* the generator has run for the piece on the selected cell
Generated ==
  /\ gameState.pieceSelected
  /\ SelectedCell(gameState) \in Cells
  /\ Occupied(gameState, SelectedCell(gameState))

\* C12: for every board and every king, the candidates are, in each of the
\* four directions, the empty cells before the first piece (only with
\* afterCapture = false) and, if the first piece is an opponent's with an
\* empty cell of the board right behind it, that one cell; nothing else.
KingCandidatesFollowRule ==
  (Generated /\ At(gameState, SelectedCell(gameState)).isKing) =>
    StoredCandidates(gameState) =
      KingRule(gameState, SelectedCell(gameState), gameState.isCapturing)

\* ---- C13
\* what the rules offer the man on c: the forward neighbours that are empty
\* (only with afterCapture = false) and the cells two steps forward behind
\* an opponent's piece
ManRule(gs, c, isAfterCapture) ==
  LET dy == IF At(gs, c).player = PLAYER1 THEN 1 ELSE -1 IN
  UNION {LET near == Step(c, <<dx, dy>>, 1)
             far == Step(c, <<dx, dy>>, 2)
         IN (IF ~isAfterCapture /\ near \in Cells /\ ~Occupied(gs, near)
               THEN {near} ELSE {})
            \cup
            (IF /\ near \in Cells /\ Occupied(gs, near)
                /\ At(gs, near).player # At(gs, c).player
                /\ far \in Cells /\ ~Occupied(gs, far)
               THEN {far} ELSE {}) : dx \in {1, -1}}

AllowedDestinations(gs, c, isAfterCapture) ==
  IF At(gs, c).isKing THEN KingRule(gs, c, isAfterCapture)
  ELSE ManRule(gs, c, isAfterCapture)

\* C13: for every board with pieces on the dark cells only and every
\* selected piece, the candidate list holds every destination the rules
\* allow; the cap of MAX_VALID_MOVES drops none.
NoDestinationDropped ==
  Generated =>
    AllowedDestinations(gameState, SelectedCell(gameState), gameState.isCapturing)
      \subseteq StoredCandidates(gameState)

\* ---- C14
\* C14: whenever a piece is selected, the stored candidates are what
\* FindValidMoves yields for the selected cell on the current board with
\* afterCapture = isCapturing; each is an empty cell of the board on a
\* diagonal of the selected cell, and there are at most MAX_VALID_MOVES.
NoStaleCandidates ==
  gameState.pieceSelected =>
    /\ gameState.validMoveCount = Len(gameState.validMoves)
    /\ gameState.validMoves =
         Candidates(gameState, gameState.selectedX, gameState.selectedY,
                    gameState.isCapturing)
    /\ \A c \in StoredCandidates(gameState) :
         /\ c \in Cells
         /\ ~Occupied(gameState, c)
         /\ Diagonal(SelectedCell(gameState), c)
    /\ gameState.validMoveCount <= MAX_VALID_MOVES

\* a chain is under way: the candidates were generated anew after a jump,
\* on a board that the jump has changed
ChainCandidatesStored ==
  /\ gameState.pieceSelected
  /\ gameState.isCapturing
  /\ gameState.validMoveCount > 0
  /\ clicks > 0

\* ---- C15
\* the row of the board cell that holds the piece the selection designates
OriginRow(gs) ==
  LET index == gs.selectedY * Cols + gs.selectedX
  IN IF index < Cols * Rows THEN index \div Cols ELSE gs.selectedY

\* C15: a move of a man, simple or capturing, in a chain or not, takes a
\* Player 1 man to a higher row and a Player 2 man to a lower row than the
\* row it was selected on, and never to a lower (higher) row than that of
\* the cell it stood on.
MenMoveForwardOnly ==
  [][\A to \in Cells :
       (MoveApplied(to) /\ Mover.type = REGULAR /\ ~Mover.isKing) =>
         IF Mover.player = PLAYER1
           THEN to[2] > gameState.selectedY /\ to[2] >= OriginRow(gameState)
           ELSE to[2] < gameState.selectedY /\ to[2] <= OriginRow(gameState)]_vars

\* a man has jumped and its chain goes on
ManInChain ==
  /\ clicks > 0
  /\ gameState.pieceSelected
  /\ gameState.isCapturing
  /\ SelectedCell(gameState) \in Cells
  /\ At(gameState, SelectedCell(gameState)).type = REGULAR
  /\ ~At(gameState, SelectedCell(gameState)).isKing

\* ---- C16
\* C16: the generator run on an empty cell of the board stores no
\* candidate, whatever owner and rank the cell still carries.
EmptySourceYieldsNothing ==
  (/\ gameState.pieceSelected
   /\ SelectedCell(gameState) \in Cells
   /\ ~Occupied(gameState, SelectedCell(gameState)))
    => gameState.validMoveCount = 0

\* ---- C17
\* cell c is empty or holds a piece of the player who is not to move
NotOwnPiece(gs, c) == ~Occupied(gs, c) \/ At(gs, c).player # gs.currentPlayer

\* the step selected the piece of the player to move on an occupied cell
\* and changed nothing but the selection and its candidates
OwnPieceSelected ==
  /\ gameState'.pieceSelected
  /\ SelectedCell(gameState') \in Cells
  /\ ~NotOwnPiece(gameState, SelectedCell(gameState'))
  /\ gameState' = [gameState EXCEPT !.pieceSelected = TRUE,
                                    !.selectedX = gameState'.selectedX,
                                    !.selectedY = gameState'.selectedY,
                                    !.validMoves = gameState'.validMoves,
                                    !.validMoveCount = gameState'.validMoveCount]

\* C17: with no piece selected, a click on an empty cell or on a piece of
\* the player who is not to move leaves board, scores, currentPlayer,
\* selection, candidates and chain flag as they were; the only click that
\* changes anything selects a piece of the player to move.
IdleClickIgnored ==
  [][(ClickStep /\ ~gameState.pieceSelected) =>
       /\ \A c \in Cells :
            NotOwnPiece(gameState, c) =>
              \A reloads \in Builds(gameState) :
                HandleInput(gameState, c[1], c[2], reloads) = gameState
       /\ gameState' = gameState \/ OwnPieceSelected]_vars

\* clicks were made in the starting position and none selected anything
IdleClicksIgnored ==
  /\ clicks > 0
  /\ ~gameState.pieceSelected
  /\ ~gameState.isCapturing
  /\ gameState.selectedX = -1
  /\ gameState.currentPlayer = PLAYER1
  /\ Count(gameState, PLAYER1) = StartPieces
  /\ Count(gameState, PLAYER2) = StartPieces

\* ---- C18
\* C18: a click on the panel column is ignored in every state, with or
\* without a selection or a chain: the struct is left as it was, and the
\* selection never names a cell outside the grid.
PanelClickIgnored ==
  /\ gameState.pieceSelected => SelectedCell(gameState) \in Cells
  /\ \A y \in YS, reloads \in BOOLEAN :
       HandleInput(gameState, Cols, y, reloads) = gameState

\* ---- C19
\* back to Idle: nothing selected, no candidate, all else as it was
Deselected(gs) ==
  [gs EXCEPT !.pieceSelected = FALSE, !.validMoveCount = 0, !.validMoves = << >>]

\* with a piece selected, a click on each cell of `cells' that is not a
\* candidate deselects when no chain is pending and is ignored when one is
NonCandidateClicks(cells) ==
  gameState.pieceSelected =>
    \A c \in cells \ StoredCandidates(gameState) :
      \A reloads \in BOOLEAN :
        HandleInput(gameState, c[1], c[2], reloads) =
          IF gameState.isCapturing THEN gameState ELSE Deselected(gameState)

\* C19 as stated: with a piece selected and no chain pending, a click on any
\* cell of the board that is not a candidate deselects, leaving board,
\* scores and currentPlayer as they were; with a chain pending it is ignored.
NonCandidateDeselects == NonCandidateClicks(Cells)

\* C19 for the cells that do not hold a piece of the player to move: with
\* no chain pending a click on such a cell that is not a candidate
\* deselects, and a click on a piece of the player to move selects that
\* piece instead; with a chain pending every click on a cell that is not a
\* candidate is ignored.
NonCandidateDeselectsOrReselects ==
  /\ NonCandidateClicks(IF gameState.isCapturing THEN Cells
                        ELSE {c \in Cells : NotOwnPiece(gameState, c)})
  /\ (gameState.pieceSelected /\ ~gameState.isCapturing) =>
       \A c \in Cells :
         ~NotOwnPiece(gameState, c) =>
           \A reloads \in BOOLEAN :
           LET after == HandleInput(gameState, c[1], c[2], reloads) IN
             /\ after.pieceSelected
             /\ SelectedCell(after) = c
             /\ after.validMoves = Candidates(gameState, c[1], c[2], FALSE)
             /\ after.board = gameState.board
             /\ after.currentPlayer = gameState.currentPlayer
             /\ after.player1Score = gameState.player1Score
             /\ after.player2Score = gameState.player2Score
             /\ ~after.isCapturing

\* a piece was selected and deselected again: no piece has moved since the
\* start, nothing is selected, and the selection fields name a cell
DeselectedAtStart ==
  /\ clicks > 0
  /\ ~gameState.pieceSelected
  /\ gameState.selectedX # -1
  /\ gameState.currentPlayer = PLAYER1
  /\ gameState.board = InitializeGame(gameState).board

\* ---- C20
\* the move to cell to crossed no piece: a step to a neighbouring cell, or
\* a king's move along empty cells
SimpleMoveApplied(to) ==
  /\ MoveApplied(to)
  /\ \A c \in Between(SelectedCell(gameState), to) : ~Occupied(gameState, c)

\* the piece as it stands after a move to row y: crowned on the far row of
\* its owner
AfterPromotion(piece, y) ==
  IF y = FarRow(piece.player) THEN [piece EXCEPT !.type = KING, !.isKing = TRUE]
  ELSE piece

\* C20: a simple move removes no piece and changes no score; the origin
\* cell is emptied, the destination holds the moved piece (crowned on its
\* far row), every other cell is as it was, and the turn ends in the same
\* click with the chain flag cleared.
SimpleMoveFrame ==
  [][\A to \in Cells :
       SimpleMoveApplied(to) =>
         LET from == SelectedCell(gameState) IN
         /\ gameState'.player1Score = gameState.player1Score
         /\ gameState'.player2Score = gameState.player2Score
         /\ PieceCount(gameState') = PieceCount(gameState)
         /\ from \in Cells
         /\ ~Occupied(gameState', from)
         /\ At(gameState', to) = AfterPromotion(Mover, to[2])
         /\ \A c \in Cells \ {from, to} : At(gameState', c) = At(gameState, c)
         /\ TurnEnded]_vars

\* ---- C21
\* the move to cell to ends the turn: a simple move, a move that crowns a
\* man, or a jump that leaves the piece no jump from its landing cell
TurnEnds(to) ==
  \/ SimpleMoveApplied(to)
  \/ Promoted(to)
  \/ JumpApplied(to) /\ Candidates(gameState', to[1], to[2], TRUE) = << >>

\* C21: whenever a turn ends, after a simple move, a promoting move or a
\* capture without continuation, no piece is selected, validMoveCount is 0,
\* the chain flag is cleared and currentPlayer is switched.
TurnEndClearsAll ==
  [][(ClickStep /\ gameState.pieceSelected) =>
       \A to \in Landings(gameState, gameState') : TurnEnds(to) => TurnEnded]_vars

\* ---- C22
\* type and isKing of a piece
Rank(piece) == <<piece.type, piece.isKing>>

\* the move to cell to left every rank as the promotion rule has it: the
\* piece that moved is a king if it landed on the far row of the player who
\* moved and has the rank it had otherwise, and no other piece changed rank
RanksAfterMove(to) ==
  /\ IF to[2] = FarRow(gameState.currentPlayer)
       THEN Rank(At(gameState', to)) = <<KING, TRUE>>
       ELSE Rank(At(gameState', to)) = Rank(Mover)
  /\ \A c \in Cells \ {to} :
       Occupied(gameState', c) => Rank(At(gameState', c)) = Rank(At(gameState, c))

\* PromoteToKing applied twice to cell c is PromoteToKing applied once, and
\* applied to a cell that holds a king it changes nothing
PromotingAgainChangesNothing ==
  \A c \in Cells :
    LET once == PromoteToKing(gameState, c[1], c[2])
    IN /\ PromoteToKing(once, c[1], c[2]) = once
       /\ At(gameState, c).type = KING => once = gameState

\* C22: after every move the piece that moved is a king if it stands on the
\* far row of the player who moved (row 7 for Player 1, row 0 for Player 2)
\* and has kept its rank on any other row, no other piece has changed rank,
\* and PromoteToKing on a cell that already holds a king changes nothing.
PromotionRule ==
  /\ []PromotingAgainChangesNothing
  /\ [][(ClickStep /\ gameState.pieceSelected) =>
          \A to \in Landings(gameState, gameState') : RanksAfterMove(to)]_vars

\* ---- C23
\* C23: in every state reached from InitializeGame by clicks every occupied
\* cell is a dark one, (column + row) odd, and each player owns at most the
\* 12 pieces of the start.
PiecesOnDarkCells ==
  /\ \A c \in Cells : Occupied(gameState, c) => (c[1] + c[2]) % 2 = 1
  /\ \A p \in {PLAYER1, PLAYER2} : Count(gameState, p) <= StartPieces

\* ---- C24
\* gs is the starting position: Player 1's 12 men on the odd cells of rows
\* 0-2, Player 2's 12 men on the odd cells of rows 5-7, every other cell
\* empty, no king, Player 1 to move, both scores 0, nothing selected
StartingPosition(gs) ==
  /\ \A c \in Cells :
       LET odd == (c[1] + c[2]) % 2 = 1 IN
       /\ ~At(gs, c).isKing
       /\ At(gs, c).type \in {NONE, REGULAR}
       /\ Occupied(gs, c) <=> (odd /\ c[2] \in {0, 1, 2, 5, 6, 7})
       /\ Occupied(gs, c) =>
            At(gs, c).player = IF c[2] <= 2 THEN PLAYER1 ELSE PLAYER2
  /\ Count(gs, PLAYER1) = 12
  /\ Count(gs, PLAYER2) = 12
  /\ gs.currentPlayer = PLAYER1
  /\ gs.player1Score = 0
  /\ gs.player2Score = 0
  /\ ~gs.pieceSelected

\* C24: InitializeGame produces the starting position, from whatever state
\* it is called in, and the state after a restart is that position.
InitializeGameGivesStart ==
  /\ []StartingPosition(InitializeGame(gameState))
  /\ [][(gameOver /\ ~gameOver') => StartingPosition(gameState')]_vars

\* a game restarted after it was played: the starting position, with empty
\* cells that remember different owners
RestartedGame ==
  /\ ~gameOver
  /\ clicks > 0
  /\ StartingPosition(gameState)
  /\ \E c, d \in Cells :
       /\ ~Occupied(gameState, c) /\ ~Occupied(gameState, d)
       /\ At(gameState, c).player # At(gameState, d).player

\* ---- C25
\* a load of the file fails: the file is missing, cannot be opened, or holds
\* less than a whole snapshot or a damaged one
LoadFails(file) ==
  \/ ~file.exists
  \/ ~file.opens
  \/ file.items < FullLength
  \/ file.snapshot \notin Snapshots

\* C25: a load that fails (missing file, file that cannot be opened, short
\* or damaged snapshot) leaves the game state in memory as it was.
FailedLoadLeavesState ==
  \A file \in Files : LoadFails(file) => LoadGame(gameState, file) = gameState

\* ---- C26
\* the step is a restart from the game-over screen
RestartStep == gameOver /\ ~gameOver'

\* gs is Idle with no chain pending and no candidates, and a click on any
\* piece of Player 1 selects it
IdleForPlayer1(gs) ==
  /\ ~gs.pieceSelected
  /\ ~gs.isCapturing
  /\ gs.validMoveCount = 0
  /\ \A c \in Cells, reloads \in BOOLEAN :
       (Occupied(gs, c) /\ At(gs, c).player = PLAYER1) =>
         LET after == HandleInput(gs, c[1], c[2], reloads)
         IN after.pieceSelected /\ SelectedCell(after) = c

\* C26: after a restart, in whatever state the game before ended (a game
\* declared over in the middle of a capture chain included), nothing is
\* selected, no chain is pending, the candidate list is empty, and Player 1
\* can select any of their pieces with the next click.
RestartGivesIdle ==
  [][RestartStep => IdleForPlayer1(gameState')]_vars

\* ---- C27
\* a pending chain has its piece: one is selected, the selected cell holds
\* a piece of the player to move, and there are candidates
ChainHasPiece(gs) ==
  gs.isCapturing =>
    /\ gs.pieceSelected
    /\ SelectedCell(gs) \in Cells
    /\ Occupied(gs, SelectedCell(gs))
    /\ At(gs, SelectedCell(gs)).player = gs.currentPlayer
    /\ gs.validMoveCount > 0

\* in a pending chain some click changes the state
ChainCanProgress(gs) ==
  gs.isCapturing =>
    \E x \in ClickXS, y \in YS : \A reloads \in Builds(gs) :
      HandleInput(gs, x, y, reloads) # gs

\* C27: a click processed in a state where a pending chain has its piece
\* (as in a game started with the chain flag false) leads to a state where
\* a pending chain has its piece again, selected, owned by the player to
\* move, with candidates, and where some click makes progress in the chain.
ChainKeepsItsPiece ==
  [][(ClickStep /\ ChainHasPiece(gameState)) =>
       (ChainHasPiece(gameState') /\ ChainCanProgress(gameState'))]_vars

\* ---- C28
\* the click is a step of a pending chain
ChainStep == ClickStep /\ gameState.isCapturing /\ gameState' # gameState

\* C28: every step of a capture chain removes exactly one piece of the
\* opponent, the click that ends the chain ends the turn with currentPlayer
\* switched, and a player who keeps clicking candidates reaches the end of
\* the turn: a pending chain leads to a state with no chain pending.
ChainsEnd ==
  /\ [][ChainStep =>
          /\ Count(gameState', Other(Mover.player))
               = Count(gameState, Other(Mover.player)) - 1
          /\ ~gameState'.isCapturing => TurnEnded]_vars
  /\ (gameState.isCapturing /\ gameState.pieceSelected) ~> ~gameState.isCapturing

\* ---- C29
\* in gs every piece has type KING exactly if isKing is set, and no man
\* stands on the far row of its owner
RanksConsistent(gs) ==
  \A c \in Cells :
    Occupied(gs, c) =>
      /\ At(gs, c).type = KING <=> At(gs, c).isKing
      /\ At(gs, c).type = REGULAR => c[2] # FarRow(At(gs, c).player)

\* no king became a man in the step: a king that stays on its cell stays a
\* king, and a king that moved arrives as a king
KingsStayKings ==
  /\ \A c \in Cells :
       (At(gameState, c).type = KING /\ Occupied(gameState', c)
          /\ At(gameState', c).player = At(gameState, c).player)
         => At(gameState', c).type = KING
  /\ (gameState.pieceSelected /\ Mover.type = KING) =>
       \A to \in Landings(gameState, gameState') : At(gameState', to).type = KING

\* C29: in every state reached from InitializeGame by clicks a piece has
\* type KING if and only if isKing is set, no man of Player 1 stands on row
\* 7 and no man of Player 2 on row 0, and no click turns a king into a man.
RankConsistency ==
  /\ []RanksConsistent(gameState)
  /\ [][ClickStep => KingsStayKings]_vars

====
